---- MODULE Spec2Model ----
(***************************************************************************)
(* State-machine model of the two NDVI services of the repository:         *)
(*   src/main.py  FastAPI service: /ndvi and /ndvi/download over a STAC    *)
(*                catalog (_search_best_item, _read_bands_ndvi,            *)
(*                _save_geotiff, _png_from_ndvi);                          *)
(*   src/app.py   Flask service over the managed analysis backend          *)
(*                (get_ndvi, view_ndvi, get_land_cover, view_land_cover).  *)
(* Arithmetic on samples and transforms is exact (rationals as pairs,      *)
(* integers for affine coefficients); float32 rounding is not modelled.    *)
(***************************************************************************)
EXTENDS Integers, Sequences, FiniteSets, TLC

VARIABLES
    op,             \* the entry point being executed
    pc,             \* position inside it
    body,           \* the JSON request body
    cloud_first,    \* primary cloud threshold passed to _search_best_item
    catalog,        \* the remote catalog's scenes for the bbox/datetime, in catalog order
    queries,        \* the catalog queries issued so far: threshold and outcome, in order
    item,           \* the scene _search_best_item holds / returns (index, or None)
    opens,          \* band assets opened remotely so far, in order
    src_transform,  \* src4.transform
    window,         \* from_bounds(...) window offsets
    b4,             \* red band window (masked array)
    b8,             \* near-infrared band window (masked array)
    ndvi,           \* the index array returned by _read_bands_ndvi
    transform,      \* the transform returned by _read_bands_ndvi
    backend_calls,  \* remote analysis-backend calls issued (app.py)
    raised,         \* the exception that left the function, or "none"
    response        \* the HTTP response, status 0 while none was sent

vars == <<op, pc, body, cloud_first, catalog, queries, item, opens,
          src_transform, window, b4, b8, ndvi, transform, backend_calls,
          raised, response>>

----------------------------------------------------------------------------
\* Bounds of the model.

\* longest catalog content enumerated
MaxItems == 3

\* largest band-window dimension enumerated
MaxDim == 3

\* largest pixel coordinate the transform claims are evaluated at
MaxPix == 2

----------------------------------------------------------------------------
\* Program constants.

\* cloud_first: int = 20
DefaultCloud == 20

\* item = _pick(60)
RelaxedCloud == 60

\* it.properties.get("eo:cloud_cover", 1000)
MissingCloudKey == 1000

\* b4 /= 10000.0 ; b8 /= 10000.0
ReflectanceScale == 10000

None == 0
NoCloud == -1
NoValue == <<>>

Max2(x, y) == IF x >= y THEN x ELSE y

----------------------------------------------------------------------------
\* Catalog Search: _search_best_item and its inner _pick.

\* eo:cloud_cover values enumerated for catalog scenes; NoCloud is a scene
\* that the catalog returns without the property.
CloudVals == {5, 20, 40, 60, 80, NoCloud}

\* primary thresholds enumerated for direct calls
Thresholds == {5, 20, 50, 60, 70, 100}

Catalogs == UNION {[1..n -> CloudVals] : n \in 0..MaxItems}

\* Variant: the filter taken as `lte` instead of `lt`.
MatchesUpTo(cat, i, limit_cloud) ==
    cat[i] = NoCloud \/ cat[i] <= limit_cloud

\* query={"eo:cloud_cover": {"lt": limit_cloud}}: the catalog's filter.  A
\* scene without the property that the catalog returns at all is returned
\* whatever the limit (one it never returns is the same as an absent scene).
Matches(cat, i, limit_cloud) ==
    cat[i] = NoCloud \/ cat[i] < limit_cloud

\* list(search.get_items()): the matching scenes (by index), in catalog order.
RECURSIVE get_items(_, _, _)
get_items(cat, limit_cloud, i) ==
    IF i > Len(cat) THEN <<>>
    ELSE (IF Matches(cat, i, limit_cloud) THEN <<i>> ELSE <<>>)
         \o get_items(cat, limit_cloud, i + 1)

\* key=lambda it: it.properties.get("eo:cloud_cover", 1000)
SortKey(cat, i) == IF cat[i] = NoCloud THEN MissingCloudKey ELSE cat[i]

\* Variant: an unstable sort that places an element before its equals.
InsertUnstable(cat, sorted, i) ==
    LET n == Cardinality({k \in 1..Len(sorted) : SortKey(cat, sorted[k]) < SortKey(cat, i)})
    IN  SubSeq(sorted, 1, n) \o <<i>> \o SubSeq(sorted, n + 1, Len(sorted))

\* list.sort(key=...) is stable: an element is inserted after every element
\* already placed whose key is less than or equal to its own.
Insert(cat, sorted, i) ==
    LET n == Cardinality({k \in 1..Len(sorted) : SortKey(cat, sorted[k]) <= SortKey(cat, i)})
    IN  SubSeq(sorted, 1, n) \o <<i>> \o SubSeq(sorted, n + 1, Len(sorted))

RECURSIVE SortItems(_, _)
SortItems(cat, items) ==
    IF items = <<>> THEN <<>>
    ELSE Insert(cat, SortItems(cat, SubSeq(items, 1, Len(items) - 1)), items[Len(items)])

\* _pick(limit_cloud), given that the query itself succeeded.
pick(cat, limit_cloud) ==
    LET items == get_items(cat, limit_cloud, 1)
    IN  IF items = <<>> THEN None ELSE SortItems(cat, items)[1]

MainHandlers == {"ndvi", "ndvi_download"}

NoResponse == [status |-> 0, media |-> "", detail |-> ""]

\* No request body: the function is called directly.
NoBody == [bbox |-> [present |-> FALSE, keys |-> {}], numeric |-> TRUE,
           start |-> FALSE, end |-> FALSE, scale |-> "absent"]

\* An exception leaves the running function.  Under a FastAPI route nothing
\* catches it and the framework answers 500; a direct call just sees it raised.
Raise(kind) ==
    /\ raised' = kind
    /\ pc' = IF op \in MainHandlers THEN "done" ELSE "raised"
    /\ response' = IF op \in MainHandlers
                   THEN [status |-> 500, media |-> "text/plain", detail |-> "Internal Server Error"]
                   ELSE response

\* Where _search_best_item's return leads: back into the route, or to the caller.
AfterSearch == IF op \in MainHandlers THEN "check_item" ELSE "returned"

\* Variant: the relaxed query issued whatever the primary query returned.
SearchPrimaryAlwaysRelaxes ==
    /\ pc = "search_primary"
    /\ queries' = Append(queries, [limit |-> cloud_first, outcome |-> "items"])
    /\ item' = pick(catalog, cloud_first)
    /\ pc' = "search_relaxed"
    /\ UNCHANGED <<op, body, cloud_first, catalog, opens, src_transform, window, b4, b8,
                   ndvi, transform, backend_calls, raised, response>>

\* item = _pick(cloud_first): the query succeeds.
SearchPrimary ==
    /\ pc = "search_primary"
    /\ queries' = Append(queries, [limit |-> cloud_first, outcome |-> "items"])
    /\ item' = pick(catalog, cloud_first)
    /\ pc' = IF item' = None THEN "search_relaxed" ELSE AfterSearch
    /\ UNCHANGED <<op, body, cloud_first, catalog, opens, src_transform, window, b4, b8,
                   ndvi, transform, backend_calls, raised, response>>

\* CATALOG.search / search.get_items raise on a transport failure; _pick and
\* _search_best_item have no handler, so the exception leaves both.
SearchPrimaryFails ==
    /\ pc = "search_primary"
    /\ queries' = Append(queries, [limit |-> cloud_first, outcome |-> "error"])
    /\ Raise("TransportError")
    /\ UNCHANGED <<op, body, cloud_first, catalog, item, opens, src_transform,
                   window, b4, b8, ndvi, transform, backend_calls>>

\* if item is None: item = _pick(60); return item
SearchRelaxed ==
    /\ pc = "search_relaxed"
    /\ queries' = Append(queries, [limit |-> RelaxedCloud, outcome |-> "items"])
    /\ item' = pick(catalog, RelaxedCloud)
    /\ pc' = AfterSearch
    /\ UNCHANGED <<op, body, cloud_first, catalog, opens, src_transform, window,
                   b4, b8, ndvi, transform, backend_calls, raised, response>>

\* Variant: the transport error caught and reported as an empty result.
SearchRelaxedFailsSwallowed ==
    /\ pc = "search_relaxed"
    /\ queries' = Append(queries, [limit |-> RelaxedCloud, outcome |-> "error"])
    /\ item' = None
    /\ pc' = AfterSearch
    /\ UNCHANGED <<op, body, cloud_first, catalog, opens, src_transform, window,
                   b4, b8, ndvi, transform, backend_calls, raised, response>>

\* The relaxed query's transport failure leaves _search_best_item the same way.
SearchRelaxedFails ==
    /\ pc = "search_relaxed"
    /\ queries' = Append(queries, [limit |-> RelaxedCloud, outcome |-> "error"])
    /\ Raise("TransportError")
    /\ UNCHANGED <<op, body, cloud_first, catalog, item, opens, src_transform,
                   window, b4, b8, ndvi, transform, backend_calls>>

----------------------------------------------------------------------------
\* Windowed Band Reader and Index Compute: _read_bands_ndvi.

\* Exact rationals <<numerator, denominator>>, denominator > 0, in lowest terms.
RECURSIVE GCD(_, _)
GCD(x, y) == IF y = 0 THEN x ELSE GCD(y, x % y)

Abs(x) == IF x < 0 THEN -x ELSE x

Norm(n, d) ==
    LET g == GCD(Abs(n), Abs(d))
        s == IF d < 0 THEN -1 ELSE 1
    IN  <<s * (n \div g), s * (d \div g)>>

RAdd(x, y) == Norm(x[1] * y[2] + y[1] * x[2], x[2] * y[2])
RSub(x, y) == Norm(x[1] * y[2] - y[1] * x[2], x[2] * y[2])
RDiv(x, y) == Norm(x[1] * y[2], x[2] * y[1])
RIsZero(x) == x[1] = 0

\* A sample of a band window read with masked=True: the stored digital number
\* and the validity mask (TRUE: no-data).
RawValues == {0, 1, 3}
Samples == [data : {<<v, 1>> : v \in RawValues}, mask : BOOLEAN]

\* numpy.ma, MaskedArray.__itruediv__: a masked element's data is left as it is.
MScale(s) ==
    [data |-> IF s.mask THEN s.data ELSE RDiv(s.data, <<ReflectanceScale, 1>>),
     mask |-> s.mask]

\* numpy.ma binary + and -: the result is masked where either operand is, and
\* a masked element keeps the first operand's data.
MAdd(x, y) ==
    LET m == x.mask \/ y.mask
    IN  [data |-> IF m THEN x.data ELSE RAdd(x.data, y.data), mask |-> m]

MSub(x, y) ==
    LET m == x.mask \/ y.mask
    IN  [data |-> IF m THEN x.data ELSE RSub(x.data, y.data), mask |-> m]

\* numpy.ma true division: also masked where the divisor is zero.
MDiv(x, y) ==
    LET m == x.mask \/ y.mask \/ RIsZero(y.data)
    IN  [data |-> IF m THEN x.data ELSE RDiv(x.data, y.data), mask |-> m]

\* numpy.ma `denom == 0`: the data of the comparison; a masked element
\* compares unequal to the unmasked scalar.
MEqZero(x) == IF x.mask THEN FALSE ELSE RIsZero(x.data)

NaN == [nan |-> TRUE, val |-> <<0, 1>>]
Num(v) == [nan |-> FALSE, val |-> v]

\* np.where(denom == 0, np.nan, (b8 - b4) / denom) for one sample.  np.where
\* reads the operands' data and returns a plain array: the masks are dropped.
NdviSample(red, nir) ==
    LET r == MScale(red)
        n == MScale(nir)
        denom == MAdd(n, r)
        q == MDiv(MSub(n, r), denom)
    IN  IF MEqZero(denom) THEN NaN ELSE Num(q.data)

\* Arrays are sequences of rows; every array has at least one row and column.
Height(g) == Len(g)
Width(g) == Len(g[1])
Shape(g) == <<Height(g), Width(g)>>

\* numpy broadcasting of two 2-D shapes: per axis equal, or one of them 1.
Broadcastable(s, t) ==
    \A k \in 1..2 : s[k] = t[k] \/ s[k] = 1 \/ t[k] = 1

BroadcastShape(s, t) == <<Max2(s[1], t[1]), Max2(s[2], t[2])>>

\* The element of g that broadcasting pairs with result element (i, j).
At(g, i, j) ==
    g[IF Height(g) = 1 THEN 1 ELSE i][IF Width(g) = 1 THEN 1 ELSE j]

\* The index array of lines 125-130, for broadcastable band windows.
NdviArray(red, nir) ==
    LET sh == BroadcastShape(Shape(red), Shape(nir))
    IN  [i \in 1..sh[1] |-> [j \in 1..sh[2] |-> NdviSample(At(red, i, j), At(nir, i, j))]]

\* affine.Affine: x' = a*x + b*y + c, y' = d*x + e*y + f.
Translation(xoff, yoff) == [a |-> 1, b |-> 0, c |-> xoff, d |-> 0, e |-> 1, f |-> yoff]

\* Affine.__mul__: (s * o) applies o first, then s.
AffineMul(s, o) ==
    [a |-> s.a * o.a + s.b * o.d,
     b |-> s.a * o.b + s.b * o.e,
     c |-> s.a * o.c + s.b * o.f + s.c,
     d |-> s.d * o.a + s.e * o.d,
     e |-> s.d * o.b + s.e * o.e,
     f |-> s.d * o.c + s.e * o.f + s.f]

\* Affine * (x, y)
Apply(t, x, y) == <<t.a * x + t.b * y + t.c, t.d * x + t.e * y + t.f>>

\* Variant: the translation built with row and column offsets exchanged.
WindowTransformSwapped(src, win) ==
    AffineMul(src, Translation(win.row_off, win.col_off))

\* transform = src_transform * Affine.translation(col_off, row_off)
WindowTransform(src, win) ==
    AffineMul(src, Translation(win.col_off, win.row_off))

\* Where _read_bands_ndvi's return leads.
AfterRead == IF op \in MainHandlers THEN "encode" ELSE "returned"

\* with rasterio.open(href4) as src4: CRS, transform, window, then the red read.
OpenReadB04(transforms, windows, grids) ==
    /\ pc = "open_b04"
    /\ opens' = Append(opens, "B04")
    /\ \E t \in transforms, w \in windows, g \in grids :
        /\ src_transform' = t
        /\ window' = w
        /\ b4' = g
    /\ pc' = "open_b08"
    /\ UNCHANGED <<op, body, cloud_first, catalog, queries, item, b8, ndvi,
                   transform, backend_calls, raised, response>>

\* rasterio.open / read raise when the asset is unreachable or malformed.
OpenB04Fails ==
    /\ pc = "open_b04"
    /\ opens' = Append(opens, "B04")
    /\ Raise("RasterioIOError")
    /\ UNCHANGED <<op, body, cloud_first, catalog, queries, item, src_transform,
                   window, b4, b8, ndvi, transform, backend_calls>>

\* with rasterio.open(href8) as src8: the near-infrared read, same window.
OpenReadB08(grids) ==
    /\ pc = "open_b08"
    /\ opens' = Append(opens, "B08")
    /\ \E g \in grids : b8' = g
    /\ pc' = "compute"
    /\ UNCHANGED <<op, body, cloud_first, catalog, queries, item, src_transform,
                   window, b4, ndvi, transform, backend_calls, raised, response>>

OpenB08Fails ==
    /\ pc = "open_b08"
    /\ opens' = Append(opens, "B08")
    /\ Raise("RasterioIOError")
    /\ UNCHANGED <<op, body, cloud_first, catalog, queries, item, src_transform,
                   window, b4, b8, ndvi, transform, backend_calls>>

\* Lines 124-136 on band windows numpy can combine.
ComputeNdvi ==
    /\ pc = "compute"
    /\ Broadcastable(Shape(b4), Shape(b8))
    /\ ndvi' = NdviArray(b4, b8)
    /\ transform' = WindowTransform(src_transform, window)
    /\ pc' = AfterRead
    /\ UNCHANGED <<op, body, cloud_first, catalog, queries, item, opens,
                   src_transform, window, b4, b8, backend_calls, raised, response>>

\* b8 + b4 on shapes numpy cannot broadcast: ValueError.
ComputeNdviFails ==
    /\ pc = "compute"
    /\ ~Broadcastable(Shape(b4), Shape(b8))
    /\ Raise("ValueError")
    /\ UNCHANGED <<op, body, cloud_first, catalog, queries, item, opens,
                   src_transform, window, b4, b8, ndvi, transform, backend_calls>>

\* Band windows enumerated: every array of at most two samples, and the
\* uniformly filled arrays of every shape up to MaxDim x MaxDim.
Uniform(h, w, s) == [i \in 1..h |-> [j \in 1..w |-> s]]

SmallGrids ==
    UNION {[1..sh[1] -> [1..sh[2] -> Samples]] : sh \in {<<1, 1>>, <<1, 2>>, <<2, 1>>}}

UniformGrids == {Uniform(h, w, s) : h \in 1..MaxDim, w \in 1..MaxDim, s \in Samples}

Grids == SmallGrids \cup UniformGrids

\* A north-up 10 m grid, as Sentinel-2 assets have.
NorthUp == [a |-> 10, b |-> 0, c |-> 300, d |-> 0, e |-> -10, f |-> 900]

Windows == [row_off : {0, 2}, col_off : {0, 1}]

UnsetBands ==
    /\ opens = <<>>
    /\ src_transform = NoValue
    /\ window = NoValue
    /\ b4 = NoValue
    /\ b8 = NoValue
    /\ ndvi = NoValue
    /\ transform = NoValue

UnsetSearch ==
    /\ queries = <<>>
    /\ item = None

\* A direct call _read_bands_ndvi(item, bbox).
InitBands ==
    /\ op = "read_bands_ndvi"
    /\ pc = "open_b04"
    /\ body = NoBody
    /\ cloud_first = DefaultCloud
    /\ catalog = <<>>
    /\ UnsetSearch
    /\ UnsetBands
    /\ backend_calls = 0
    /\ raised = "none"
    /\ response = NoResponse

NextBands ==
    \/ OpenReadB04({NorthUp}, Windows, Grids)
    \/ OpenB04Fails
    \/ OpenReadB08(Grids)
    \/ OpenB08Fails
    \/ ComputeNdvi
    \/ ComputeNdviFails

SpecBands == InitBands /\ [][NextBands]_vars

\* The same call over many source transforms and window offsets, on
\* one-sample band windows.
Coefs == [a : {1, 10}, b : {0, 2}, c : {0, 7}, d : {0, 3}, e : {-10, 1}, f : {0, 5}]

Offsets == [row_off : {-1, 0, 2}, col_off : {-1, 0, 2}]

OneSample == {Uniform(1, 1, s) : s \in {[data |-> <<3, 1>>, mask |-> FALSE]}}

NextTransform ==
    \/ OpenReadB04(Coefs, Offsets, OneSample)
    \/ OpenB04Fails
    \/ OpenReadB08(OneSample)
    \/ OpenB08Fails
    \/ ComputeNdvi

SpecTransform == InitBands /\ [][NextTransform]_vars

----------------------------------------------------------------------------
\* API routes of src/main.py: POST /ndvi and POST /ndvi/download.

Keys == {"west", "south", "east", "north"}

\* JSON object bodies: "bbox" absent (or null), or an object with some of the
\* four keys; numeric says whether float() accepts the bbox values.
BboxValues ==
    {[present |-> FALSE, keys |-> {}]} \cup [present : {TRUE}, keys : SUBSET Keys]

MainBodies ==
    [bbox : BboxValues, numeric : BOOLEAN, start : BOOLEAN, end : BOOLEAN,
     scale : {"absent"}]

\* Lines 201-212 (and 231-242): the parameter check, then the four float()
\* conversions in source order.
ParseOutcome(b) ==
    IF ~b.bbox.present \/ b.bbox.keys = {} \/ ~b.start \/ ~b.end THEN "missing"
    ELSE IF "west" \notin b.bbox.keys THEN "KeyError"
    ELSE IF ~b.numeric THEN "ValueError"
    ELSE IF Keys \ b.bbox.keys # {} THEN "KeyError"
    ELSE "ok"

ParseRequest ==
    /\ pc = "start"
    /\ op \in MainHandlers
    /\ LET v == ParseOutcome(body)
       IN  CASE v = "missing" ->
                  /\ response' = [status |-> 400, media |-> "application/json",
                                  detail |-> "Missing parameters"]
                  /\ pc' = "done"
                  /\ UNCHANGED raised
             [] v = "ok" ->
                  /\ pc' = "search_primary"
                  /\ UNCHANGED <<raised, response>>
             [] OTHER -> Raise(v)
    /\ UNCHANGED <<op, body, cloud_first, catalog, queries, item, opens,
                   src_transform, window, b4, b8, ndvi, transform, backend_calls>>

\* Variant: the None check left out.
CheckItemIgnoresNone ==
    /\ pc = "check_item"
    /\ pc' = "open_b04"
    /\ UNCHANGED response
    /\ UNCHANGED <<op, body, cloud_first, catalog, queries, item, opens,
                   src_transform, window, b4, b8, ndvi, transform, backend_calls,
                   raised>>

\* if item is None: raise HTTPException(status_code=404, ...)
CheckItem ==
    /\ pc = "check_item"
    /\ IF item = None
       THEN /\ response' = [status |-> 404, media |-> "application/json",
                            detail |-> "No imagery found for the requested time/area."]
            /\ pc' = "done"
       ELSE /\ pc' = "open_b04"
            /\ UNCHANGED response
    /\ UNCHANGED <<op, body, cloud_first, catalog, queries, item, opens,
                   src_transform, window, b4, b8, ndvi, transform, backend_calls,
                   raised>>

\* /ndvi: _png_from_ndvi, Response(media_type="image/png");
\* /ndvi/download: _save_geotiff, StreamingResponse(media_type="image/tiff").
Encode ==
    /\ pc = "encode"
    /\ response' = [status |-> 200,
                    media |-> IF op = "ndvi" THEN "image/png" ELSE "image/tiff",
                    detail |-> ""]
    /\ pc' = "done"
    /\ UNCHANGED <<op, body, cloud_first, catalog, queries, item, opens,
                   src_transform, window, b4, b8, ndvi, transform, backend_calls,
                   raised>>

\* Catalog contents and band windows enumerated for whole requests.
RouteCatalogs == UNION {[1..n -> {5, 40, 80, NoCloud}] : n \in 0..MaxItems}

RouteGrids ==
    {Uniform(sh[1], sh[2], s) :
        sh \in {<<1, 1>>, <<2, 2>>, <<2, 3>>},
        s \in {[data |-> <<3, 1>>, mask |-> FALSE], [data |-> <<0, 1>>, mask |-> TRUE]}}

Init ==
    /\ op \in MainHandlers
    /\ pc = "start"
    /\ body \in MainBodies
    /\ cloud_first = DefaultCloud
    /\ catalog \in RouteCatalogs
    /\ UnsetSearch
    /\ UnsetBands
    /\ backend_calls = 0
    /\ raised = "none"
    /\ response = NoResponse

Next ==
    \/ ParseRequest
    \/ SearchPrimary
    \/ SearchPrimaryFails
    \/ SearchRelaxed
    \/ SearchRelaxedFails
    \/ CheckItem
    \/ OpenReadB04({NorthUp}, {[row_off |-> 2, col_off |-> 1]}, RouteGrids)
    \/ OpenB04Fails
    \/ OpenReadB08(RouteGrids)
    \/ OpenB08Fails
    \/ ComputeNdvi
    \/ ComputeNdviFails
    \/ Encode

Spec == Init /\ [][Next]_vars

----------------------------------------------------------------------------
\* Routes of src/app.py (Flask, managed analysis backend).

AppHandlers == {"get_ndvi", "view_ndvi", "get_land_cover", "view_land_cover"}

\* The routes that read `scale`.
ScaleHandlers == {"get_ndvi", "get_land_cover"}

\* scale: absent, something int() accepts, or something it rejects.
AppBodies ==
    [bbox : BboxValues, numeric : {TRUE}, start : BOOLEAN, end : BOOLEAN,
     scale : {"absent", "int", "malformed"}]

JsonError(status, msg) == [status |-> status, media |-> "application/json", detail |-> msg]

\* The try block up to the first backend request: bbox check, get_dates,
\* int(data.get('scale', 100)); ValueError falls to `except Exception`.
AppParseOutcome(o, b) ==
    IF ~b.bbox.present \/ b.bbox.keys # Keys THEN 400
    ELSE IF o \in ScaleHandlers /\ b.scale = "malformed" THEN 500
    ELSE 0

AppParse ==
    /\ pc = "start"
    /\ op \in AppHandlers
    /\ LET v == AppParseOutcome(op, body)
       IN  CASE v = 400 ->
                  /\ response' = JsonError(400, "Invalid bounding box provided")
                  /\ pc' = "done"
                  /\ UNCHANGED raised
             [] v = 500 ->
                  /\ response' = JsonError(500, "Unexpected server error")
                  /\ raised' = "ValueError"
                  /\ pc' = "done"
             [] OTHER ->
                  /\ pc' = "backend"
                  /\ UNCHANGED <<raised, response>>
    /\ UNCHANGED <<op, body, cloud_first, catalog, queries, item, opens,
                   src_transform, window, b4, b8, ndvi, transform, backend_calls>>

\* getDownloadURL / getMapId: the request to the backend succeeds.
AppBackend ==
    /\ pc = "backend"
    /\ backend_calls' = backend_calls + 1
    /\ response' = [status |-> 200, media |-> "application/json", detail |-> ""]
    /\ pc' = "done"
    /\ UNCHANGED <<op, body, cloud_first, catalog, queries, item, opens,
                   src_transform, window, b4, b8, ndvi, transform, raised>>

\* except ee.EEException / except Exception: both answer 500.
AppBackendFails ==
    /\ pc = "backend"
    /\ backend_calls' = backend_calls + 1
    /\ \E e \in {"EEException", "Exception"} :
        /\ raised' = e
        /\ response' = JsonError(500, IF e = "EEException" THEN "Failed to generate"
                                      ELSE "Unexpected server error")
    /\ pc' = "done"
    /\ UNCHANGED <<op, body, cloud_first, catalog, queries, item, opens,
                   src_transform, window, b4, b8, ndvi, transform>>

InitApp ==
    /\ op \in AppHandlers
    /\ pc = "start"
    /\ body \in AppBodies
    /\ cloud_first = DefaultCloud
    /\ catalog = <<>>
    /\ UnsetSearch
    /\ UnsetBands
    /\ backend_calls = 0
    /\ raised = "none"
    /\ response = NoResponse

NextApp ==
    \/ AppParse
    \/ AppBackend
    \/ AppBackendFails

SpecApp == InitApp /\ [][NextApp]_vars

----------------------------------------------------------------------------
\* A direct call _search_best_item(bbox, start, end, cloud_first=T).
InitSearch ==
    /\ op = "search_best_item"
    /\ pc = "search_primary"
    /\ body = NoBody
    /\ cloud_first \in Thresholds
    /\ catalog \in Catalogs
    /\ UnsetSearch
    /\ UnsetBands
    /\ backend_calls = 0
    /\ raised = "none"
    /\ response = NoResponse

NextSearch ==
    \/ SearchPrimary
    \/ SearchPrimaryFails
    \/ SearchRelaxed
    \/ SearchRelaxedFails

SpecSearch == InitSearch /\ [][NextSearch]_vars

----------------------------------------------------------------------------
\* Properties.

\* The scenes of the catalog that a query with this limit returns.
ResultSet(limit) == {i \in DOMAIN catalog : Matches(catalog, i, limit)}

\* C1: for a body whose bbox object lacks `north` (its other values numeric,
\* startDate and endDate present), /ndvi and /ndvi/download end with status 400 and have issued no
\* catalog query and no remote raster open.
C1_MissingNorthAnswers400 ==
    (/\ op \in MainHandlers
     /\ body.bbox.present
     /\ "north" \notin body.bbox.keys
     /\ body.numeric
     /\ body.start
     /\ body.end
     /\ pc = "done")
    => (response.status = 400 /\ queries = <<>> /\ opens = <<>>)

\* C2: when the catalog returned an empty result set for the primary and for
\* the relaxed query, _search_best_item returned None without raising, the
\* route answers 404 with the "No imagery found" detail, and no band was
\* opened or read and no index array was computed.
C2_EmptyCatalogAnswers404 ==
    (/\ op \in MainHandlers
     /\ Len(queries) = 2
     /\ queries[1].outcome = "items"
     /\ queries[2].outcome = "items"
     /\ \A i \in DOMAIN catalog :
            /\ catalog[i] # NoCloud
            /\ catalog[i] >= DefaultCloud
            /\ catalog[i] >= RelaxedCloud)
    => (/\ item = None
        /\ raised = "none"
        /\ pc \in {"check_item", "done"}
        /\ (pc = "done" =>
               /\ response.status = 404
               /\ response.detail = "No imagery found for the requested time/area.")
        /\ opens = <<>>
        /\ b4 = NoValue
        /\ b8 = NoValue
        /\ ndvi = NoValue)

C2_Witness ==
    /\ op = "ndvi_download"
    /\ Len(queries) = 2
    /\ queries[2].outcome = "items"
    /\ Len(catalog) = 2
    /\ pc = "done"
    /\ response.status = 404

\* C3, as stated: _search_best_item(cloud_first=T) returns None or a scene
\* whose cloud-cover is strictly less than T.
C3_ReturnedBelowPrimary ==
    pc = "returned" =>
        \/ item = None
        \/ catalog[item] = NoCloud
        \/ catalog[item] < cloud_first

\* C3, amended: it returns None, or a scene whose cloud-cover is strictly less
\* than T, or - only when no scene matched T - a scene whose cloud-cover is
\* strictly less than the relaxed threshold 60 (a returned scene that carries
\* no cloud-cover value is not constrained).
C3_ReturnedBelowPrimaryOrRelaxed ==
    pc = "returned" =>
        \/ item = None
        \/ catalog[item] = NoCloud
        \/ catalog[item] < cloud_first
        \/ /\ \A i \in DOMAIN catalog : catalog[i] # NoCloud /\ catalog[i] >= cloud_first
           /\ catalog[item] < RelaxedCloud

C3_Witness ==
    /\ pc = "returned"
    /\ item # None
    /\ catalog[item] # NoCloud
    /\ catalog[item] >= cloud_first
    /\ Len(queries) = 2

\* C4: when some scene matches the primary threshold, the returned scene
\* matches it and the relaxed query is never issued; when none matches the
\* primary threshold but some matches 60, a scene matching 60 is returned.
\* For every primary threshold, above 60 included.
C4_TwoTierRelaxation ==
    /\ ResultSet(cloud_first) # {} =>
          /\ Len(queries) <= 1
          /\ pc = "returned" =>
                /\ Len(queries) = 1
                /\ queries[1].limit = cloud_first
                /\ item \in ResultSet(cloud_first)
    /\ (ResultSet(cloud_first) = {} /\ ResultSet(RelaxedCloud) # {} /\ pc = "returned") =>
          /\ Len(queries) = 2
          /\ queries[2].limit = RelaxedCloud
          /\ item \in ResultSet(RelaxedCloud)

C4_Witness ==
    /\ pc = "returned"
    /\ cloud_first > RelaxedCloud
    /\ item # None
    /\ catalog[item] # NoCloud
    /\ catalog[item] >= RelaxedCloud
    /\ Len(queries) = 1
    /\ \E i \in DOMAIN catalog : catalog[i] # NoCloud /\ catalog[i] >= cloud_first

\* C5: the returned scene is, within the result set of the query that
\* produced it, one of minimum cloud-cover (a scene without the property
\* counting as 1000), and the first such scene in catalog order.
C5_MinCloudFirstInCatalogOrder ==
    (pc = "returned" /\ item # None) =>
        LET limit == queries[Len(queries)].limit
            rank(i) == IF catalog[i] = NoCloud THEN MissingCloudKey ELSE catalog[i]
        IN  /\ item \in ResultSet(limit)
            /\ \A i \in ResultSet(limit) :
                   /\ rank(item) <= rank(i)
                   /\ rank(i) = rank(item) => item <= i

C5_Witness ==
    /\ pc = "returned"
    /\ item = 2
    /\ Len(catalog) = 3
    /\ catalog[1] = NoCloud
    /\ catalog[3] = catalog[2]

\* C6: per sample, the output is no-data exactly when the red or the
\* near-infrared input sample is masked or their sum is zero, and otherwise
\* equals (nir - red) / (nir + red).
C6_NoDataIffMaskedOrZeroSum ==
    pc = "returned" =>
        \A i \in DOMAIN ndvi : \A j \in DOMAIN ndvi[i] :
            LET red == At(b4, i, j)
                nir == At(b8, i, j)
                out == ndvi[i][j]
            IN  /\ out.nan <=> (red.mask \/ nir.mask \/ red.data[1] + nir.data[1] = 0)
                /\ ~out.nan =>
                       out.val = Norm(nir.data[1] - red.data[1], nir.data[1] + red.data[1])

\* C7: the returned transform maps window pixel (i, j) to the point the source
\* transform maps source pixel (col_off + i, row_off + j) to; in particular
\* window pixel (0, 0) to the image of (col_off, row_off).
C7_WindowTransform ==
    pc = "returned" =>
        \A i \in 0..MaxPix, j \in 0..MaxPix :
            Apply(transform, i, j)
              = Apply(src_transform, window.col_off + i, window.row_off + j)

C7_Witness ==
    /\ pc = "returned"
    /\ window.row_off = 2
    /\ window.col_off = -1
    /\ src_transform.b # 0
    /\ src_transform.d # 0
    /\ Apply(transform, 0, 0) # Apply(src_transform, 0, 0)

\* C8: if the red and the near-infrared window have different shapes, the
\* read ends with an error, the request answers with an error status, and no
\* index array is returned.
C8_ShapeMismatchIsAnError ==
    (/\ op \in MainHandlers
     /\ pc = "done"
     /\ b4 # NoValue
     /\ b8 # NoValue
     /\ Shape(b4) # Shape(b8))
    => (ndvi = NoValue /\ raised # "none" /\ response.status >= 400)

\* C9: a valid bbox with a `scale` that int() rejects makes get_ndvi and
\* get_land_cover answer 400 without any backend call.
C9_MalformedScaleAnswers400 ==
    (/\ op \in ScaleHandlers
     /\ body.bbox.present
     /\ body.bbox.keys = Keys
     /\ body.scale = "malformed"
     /\ pc = "done")
    => (response.status = 400 /\ backend_calls = 0)

\* C10: a catalog query that fails with a transport error is the last query
\* of the request and leaves _search_best_item as an exception: no None
\* result, no 404, no relaxed query after it; at most two queries are issued,
\* the second (at 60) only after the first returned an empty result set.
C10_TransportErrorPropagates ==
    /\ Len(queries) <= 2
    /\ Len(queries) = 2 =>
          /\ queries[1].outcome = "items"
          /\ queries[1].limit = cloud_first
          /\ queries[2].limit = RelaxedCloud
          /\ ResultSet(queries[1].limit) = {}
    /\ \A k \in DOMAIN queries :
          queries[k].outcome = "error" =>
              /\ k = Len(queries)
              /\ raised = "TransportError"
              /\ pc = "done"
              /\ response.status = 500
              /\ opens = <<>>

C10_Witness ==
    /\ Len(queries) = 2
    /\ queries[2].outcome = "error"
    /\ raised = "TransportError"
    /\ response.status = 500

====
